---- MODULE Spec2Model ----
(***************************************************************************)
(* Model of sec-certs' CPE matcher (sec_certs/model/cpe_matching.py,       *)
(* class CPEClassifier) and of its CVE dataset (sec_certs/dataset/cve.py,  *)
(* class CVEDataset).                                                       *)
(*                                                                         *)
(* Python strings are sequences of one-character strings, so that split,   *)
(* strip, lower, startswith and replace are computed character by          *)
(* character as CPython computes them.                                     *)
(***************************************************************************)
EXTENDS Integers, Sequences, FiniteSets, TLC

VARIABLES
    match_threshold,            \* CPEClassifier.match_threshold
    n_max_matches,              \* CPEClassifier.n_max_matches
    fitted,                     \* the three lookup attributes exist (fit was called)
    vendor_to_versions_,        \* Dict[str, Set[str]]
    vendor_version_to_cpe_,     \* Dict[Tuple[str, str], Set[CPE]]
    vendors_,                   \* Set[str]
    cves,                       \* CVEDataset.cves: insertion-ordered dict, key -> CVE object
    cve_objs,                   \* the CVE objects themselves (shared by reference)
    cpe_to_cve_ids_lookup,      \* CVEDataset.cpe_to_cve_ids_lookup
    cves_with_vulnerable_configurations, \* list of CVE objects
    last                        \* the call that ran last: its arguments and what it returned

clf_vars == <<match_threshold, n_max_matches, fitted, vendor_to_versions_,
              vendor_version_to_cpe_, vendors_>>
cve_vars == <<cves, cve_objs, cpe_to_cve_ids_lookup, cves_with_vulnerable_configurations>>
vars == <<clf_vars, cve_vars, last>>

(***************************************************************************)
(* Python's str operations, on sequences of characters.                    *)
(***************************************************************************)
Range(s) == {s[i] : i \in 1..Len(s)}

\* str.isspace() of one character, as str.strip() and str.split() use it.
IsSpace(c) == c \in {" ", "\t"}

\* str.lower() of one character; the registered and trademark signs have no case.
LowerChar(c) ==
    CASE c = "A" -> "a" [] c = "B" -> "b" [] c = "C" -> "c" [] c = "E" -> "e"
      [] c = "G" -> "g" [] c = "H" -> "h" [] c = "I" -> "i" [] c = "M" -> "m"
      [] c = "P" -> "p" [] c = "T" -> "t" [] c = "V" -> "v"
      [] OTHER -> c

\* str.upper() of one character.
UpperChar(c) ==
    CASE c = "a" -> "A" [] c = "b" -> "B" [] c = "c" -> "C" [] c = "e" -> "E"
      [] c = "g" -> "G" [] c = "h" -> "H" [] c = "i" -> "I" [] c = "m" -> "M"
      [] c = "p" -> "P" [] c = "t" -> "T" [] c = "v" -> "V"
      [] OTHER -> c

Lower(s) == [i \in 1..Len(s) |-> LowerChar(s[i])]
Upper(s) == [i \in 1..Len(s) |-> UpperChar(s[i])]

\* s[i:] and s[:i] (1-based here).
DropFirst(s, k) == SubSeq(s, k + 1, Len(s))

RECURSIVE LStrip(_)
LStrip(s) == IF s # <<>> /\ IsSpace(Head(s)) THEN LStrip(Tail(s)) ELSE s

RECURSIVE RStrip(_)
RStrip(s) ==
    IF s # <<>> /\ IsSpace(s[Len(s)]) THEN RStrip(SubSeq(s, 1, Len(s) - 1)) ELSE s

\* str.strip()
Strip(s) == RStrip(LStrip(s))

\* a.startswith(b)
StartsWith(a, b) == Len(b) <= Len(a) /\ SubSeq(a, 1, Len(b)) = b

\* str.split(sep) for a one-character separator: every piece, the empty ones too.
RECURSIVE SplitSep(_, _, _)
SplitSep(s, sep, cur) ==
    IF s = <<>> THEN <<cur>>
    ELSE IF Head(s) = sep THEN <<cur>> \o SplitSep(Tail(s), sep, <<>>)
    ELSE SplitSep(Tail(s), sep, Append(cur, Head(s)))

\* str.split(): the pieces between runs of whitespace, never an empty piece.
RECURSIVE SplitWs(_, _)
SplitWs(s, cur) ==
    IF s = <<>> THEN (IF cur = <<>> THEN <<>> ELSE <<cur>>)
    ELSE IF IsSpace(Head(s))
         THEN (IF cur = <<>> THEN <<>> ELSE <<cur>>) \o SplitWs(Tail(s), <<>>)
         ELSE SplitWs(Tail(s), Append(cur, Head(s)))

\* ' '.join(tokens)
RECURSIVE JoinSpace(_)
JoinSpace(tokens) ==
    IF tokens = <<>> THEN <<>>
    ELSE IF Len(tokens) = 1 THEN tokens[1]
    ELSE tokens[1] \o <<" ">> \o JoinSpace(Tail(tokens))

\* A slip: str.replace(old, '', 1), the leftmost occurrence only.
RECURSIVE ReplaceFirst(_, _)
ReplaceFirst(s, old) ==
    IF old = <<>> \/ s = <<>> THEN s
    ELSE IF StartsWith(s, old) THEN DropFirst(s, Len(old))
    ELSE <<Head(s)>> \o ReplaceFirst(Tail(s), old)

\* str.replace(old, ''): every non-overlapping occurrence, left to right.
RECURSIVE ReplaceAll(_, _)
ReplaceAll(s, old) ==
    IF old = <<>> \/ s = <<>> THEN s
    ELSE IF StartsWith(s, old) THEN ReplaceAll(DropFirst(s, Len(old)), old)
    ELSE <<Head(s)>> \o ReplaceAll(Tail(s), old)

\* re.search(r'(\d{1,5})(\.\d{1,5})', s): some digit, a dot, a digit in a row.
IsDigit(c) == c \in {"0", "1", "2", "3", "4", "5", "6", "7", "8", "9"}
HasNumDotNum(s) ==
    \E i \in 1..Len(s) :
        i + 2 <= Len(s) /\ IsDigit(s[i]) /\ s[i + 1] = "." /\ IsDigit(s[i + 2])

\* \W under re.UNICODE for the characters in use: not a letter, digit or underscore.
IsWordChar(c) ==
    IsDigit(c) \/ c = "_"
    \/ c \in {"a", "b", "c", "d", "e", "f", "g", "h", "i", "j", "k", "l", "m", "n",
              "o", "p", "q", "r", "s", "t", "u", "v", "w", "x", "y", "z"}
    \/ c \in {"A", "B", "C", "E", "G", "H", "I", "M", "P", "T", "V"}

\* CPEClassifier._replace_special_chars_with_space
replace_special_chars_with_space(s) ==
    [i \in 1..Len(s) |-> IF IsWordChar(s[i]) THEN s[i] ELSE " "]

\* CPEClassifier._discard_trademark_symbols; "(R)" and "(TM)" stand for the two signs.
discard_trademark_symbols(s) == SelectSeq(s, LAMBDA c : c \notin {"(R)", "(TM)"})

\* CPEClassifier._fully_sanitize_string
fully_sanitize_string(s) ==
    replace_special_chars_with_space(discard_trademark_symbols(Lower(s)))

\* CPEClassifier._strip_manufacturer_and_version, with xs = manufacturers + versions
RECURSIVE strip_each(_, _)
strip_each(string, xs) ==
    IF xs = <<>> THEN string
    ELSE strip_each(
            Strip(ReplaceAll(Lower(string),
                             replace_special_chars_with_space(Lower(Head(xs))))),
            Tail(xs))

strip_manufacturer_and_version(string, manufacturers, versions) ==
    strip_each(string, manufacturers \o versions)

(***************************************************************************)
(* What a call returns: a list (here its set or sequence in val), None, or *)
(* the exception it raised.                                                *)
(***************************************************************************)
None == [kind |-> "None", val |-> <<>>]
Raised(e) == [kind |-> e, val |-> <<>>]
Ret(v) == [kind |-> "list", val |-> v]
IsRaised(r) == r.kind \notin {"None", "list"}

(***************************************************************************)
(* The words the resolver's manual fixes name, and the vendor keys in use. *)
(***************************************************************************)
W_hp == <<"h", "p">>
W_ibm == <<"i", "b", "m">>
W_the == <<"t", "h", "e">>
W_st == <<"s", "t">>
W_hewlett == <<"h", "e", "w", "l", "e", "t", "t">>
W_packard == <<"p", "a", "c", "k", "a", "r", "d">>
W_hewlett_packard == W_hewlett \o <<"-">> \o W_packard
W_hewlett_space_packard == W_hewlett \o <<" ">> \o W_packard
W_thales == <<"t", "h", "a", "l", "e", "s">>
W_thalesesecurity == W_thales \o <<"e", "s", "e", "c", "u", "r", "i", "t", "y">>
W_thalesgroup == W_thales \o <<"g", "r", "o", "u", "p">>
W_stmicroelectronics ==
    <<"s", "t", "m", "i", "c", "r", "o", "e", "l", "e", "c", "t", "r", "o", "n", "i", "c", "s">>
W_athena == <<"a", "t", "h", "e", "n", "a">>
W_smartcard == <<"s", "m", "a", "r", "t", "c", "a", "r", "d">>
W_athena_scs == W_athena \o <<"-", "s", "c", "s">>
W_red == <<"r", "e", "d">>
W_hat == <<"h", "a", "t">>
W_redhat == W_red \o W_hat
W_gemalto == <<"g", "e", "m", "a", "l", "t", "o">>


(***************************************************************************)
(* CPE records (sec_certs.sample.cpe.CPE): uri, vendor, item_name, version.*)
(***************************************************************************)
V71 == <<"7", ".", "1">>
V7 == <<"7">>
Dash == <<"-">>

MkCPE(u, v, n, ver) == [uri |-> u, vendor |-> v, item_name |-> n, version |-> ver]

cpe_ws == MkCPE("cpe:ibm:webs:7.1", W_ibm, <<"w", "e", "b", "s">>, V71)
cpe_aix == MkCPE("cpe:ibm:aix5:7.1", W_ibm, <<"a", "i", "x", "5">>, V71)
cpe_zos == MkCPE("cpe:ibm:zos:7.1", W_ibm, <<"z", "o", "s">>, V71)
cpe_tiv == MkCPE("cpe:ibm:tivoli:-", W_ibm, <<"t", "i", "v", "o", "l", "i">>, Dash)
cpe_db2 == MkCPE("cpe:ibm:db2_x:7", W_ibm, <<"d", "b", "2", "_", "x">>, V7)
cpe_lj == MkCPE("cpe:hp:laser:-", W_hp, <<"l", "a", "s", "e", "r">>, Dash)
cpe_rhel == MkCPE("cpe:redhat:rhel:7.1", W_redhat, <<"r", "h", "e", "l">>, V71)
cpe_gem == MkCPE("cpe:gemalto:safe:-", W_gemalto, <<"s", "a", "f", "e">>, Dash)
cpe_thg == MkCPE("cpe:thalesgroup:luna:-", W_thalesgroup, <<"l", "u", "n", "a">>, Dash)
cpe_rh2 == MkCPE("cpe:red/hat:rhel:7", W_red \o <<"/">> \o W_hat, <<"r", "h", "e", "l">>, V7)

(***************************************************************************)
(* CPEClassifier.fit / build_lookup_structures                             *)
(***************************************************************************)
\* len(x.item_name) > 3
MinItemNameLen == 3

\* A slip: >= for >, item names of three characters are kept.
filter_short_cpes_inclusive(X) == SelectSeq(X, LAMBDA x : Len(x.item_name) >= MinItemNameLen)

filter_short_cpes(X) == SelectSeq(X, LAMBDA x : Len(x.item_name) > MinItemNameLen)

build_vendor_to_versions(long) ==
    [v \in {x.vendor : x \in Range(long)} |->
        {x.version : x \in {y \in Range(long) : y.vendor = v}}]

build_vendor_version_to_cpe(long) ==
    [p \in {<<x.vendor, x.version>> : x \in Range(long)} |->
        {x \in Range(long) : <<x.vendor, x.version>> = p}]

(***************************************************************************)
(* CPEClassifier.get_candidate_list_of_vendors                             *)
(***************************************************************************)
Separators == {",", "/"}

\* The non-None results of the recursive calls, chained into one set.
ChainLists(results) == UNION {r.val : r \in {x \in results : x.kind = "list"}}

\* A slip: the pieces are not stripped.
vendor_tokens_unstripped(manufacturer, splits) ==
    UNION {Range(SplitSep(manufacturer, s, <<>>)) : s \in splits}

\* set(chain.from_iterable([[x.strip() for x in manufacturer.split(s)] for s in splits]))
vendor_tokens(manufacturer, splits) ==
    UNION {{Strip(x) : x \in Range(SplitSep(manufacturer, s, <<>>))} : s \in splits}

RECURSIVE get_candidate_list_of_vendors(_)
get_candidate_list_of_vendors(manufacturer) ==
    IF manufacturer = <<>> THEN None
    ELSE
      LET splits == Range(manufacturer) \cap Separators IN
      IF splits # {}
      THEN LET result ==
                   {get_candidate_list_of_vendors(x) : x \in vendor_tokens(manufacturer, splits)}
               raised == {r \in result : IsRaised(r)}
           IN  IF raised # {} THEN CHOOSE r \in raised : TRUE
               ELSE IF ChainLists(result) = {} THEN None
               ELSE Ret(ChainLists(result))
      ELSE LET tokenized == SplitWs(manufacturer, <<>>) IN
           IF tokenized = <<>> THEN Raised("IndexError")
           ELSE
             LET toks == Range(tokenized)
                 result ==
                    (IF manufacturer \in vendors_ THEN {manufacturer} ELSE {})
                    \cup (IF tokenized[1] \in vendors_ THEN {tokenized[1]} ELSE {})
                    \cup (IF Len(tokenized) > 1 /\ (tokenized[1] \o tokenized[2]) \in vendors_
                          THEN {tokenized[1] \o tokenized[2]} ELSE {})
                    \cup (IF W_hewlett \in toks \/ W_hewlett_packard \in toks
                             \/ manufacturer = W_hewlett_space_packard
                          THEN {W_hp} ELSE {})
                    \cup (IF W_thales \in toks THEN {W_thalesesecurity, W_thalesgroup} ELSE {})
                    \cup (IF W_stmicroelectronics \in toks THEN {W_st} ELSE {})
                    \cup (IF W_athena \in toks /\ W_smartcard \in toks
                          THEN {W_athena_scs} ELSE {})
             IN  IF tokenized[1] = W_the /\ result = {}
                 THEN get_candidate_list_of_vendors(JoinSpace(Tail(tokenized)))
                 ELSE IF result = {} THEN None ELSE Ret(result)

(***************************************************************************)
(* CPEClassifier.get_candidate_vendor_version_pairs and                    *)
(* get_candidate_cpe_matches                                               *)
(***************************************************************************)
\* A slip: the second disjunct, cpe_version.startswith(v), is left out.
is_cpe_version_prefix_of_cert_version(cpe_version, cert_versions) ==
    \E i \in 1..Len(cert_versions) :
        StartsWith(cert_versions[i], cpe_version) /\ HasNumDotNum(cpe_version)

is_cpe_version_among_cert_versions(cpe_version, cert_versions) ==
    \E i \in 1..Len(cert_versions) :
        \/ StartsWith(cert_versions[i], cpe_version) /\ HasNumDotNum(cpe_version)
        \/ StartsWith(cpe_version, cert_versions[i])

\* Every list that enumerates the finite set S once: the orders in which Python may
\* iterate a set (or a list made from a set).
RECURSIVE Orderings(_)
Orderings(S) ==
    IF S = {} THEN {<<>>}
    ELSE UNION {{<<x>> \o rest : rest \in Orderings(S \ {x})} : x \in S}

\* The lists made by chaining, block after block, some ordering of each block.
RECURSIVE ChainBlocks(_)
ChainBlocks(blocks) ==
    IF blocks = <<>> THEN {<<>>}
    ELSE {a \o b : a \in Orderings(Head(blocks)), b \in ChainBlocks(Tail(blocks))}

matched_cpe_versions(vendor, cert_candidate_versions) ==
    {x \in vendor_to_versions_[vendor] :
        is_cpe_version_among_cert_versions(x, cert_candidate_versions)}

\* None for no vendors, KeyError for a vendor that is no key of vendor_to_versions_,
\* else the possible lists of (vendor, version) pairs: vendor after vendor, and the
\* matched versions of each vendor in the order its version set iterates.
get_candidate_vendor_version_pairs(cert_candidate_cpe_vendors, cert_candidate_versions) ==
    IF cert_candidate_cpe_vendors.kind # "list" THEN None
    ELSE IF \E v \in cert_candidate_cpe_vendors.val : v \notin DOMAIN vendor_to_versions_
    THEN Raised("KeyError")
    ELSE Ret(UNION {
            ChainBlocks([i \in 1..Len(vo) |->
                {<<vo[i], x>> : x \in matched_cpe_versions(vo[i], cert_candidate_versions)}])
            : vo \in Orderings(cert_candidate_cpe_vendors.val)})

\* The possible candidate lists: the records of pair after pair, each pair's set in
\* the order it iterates; [] when there are no pairs.
get_candidate_cpe_matches(candidate_vendors, candidate_versions) ==
    LET pairs == get_candidate_vendor_version_pairs(candidate_vendors, candidate_versions) IN
    IF IsRaised(pairs) THEN pairs
    ELSE IF pairs.kind = "None" THEN Ret({<<>>})
    ELSE Ret(UNION {
            ChainBlocks([i \in 1..Len(ps) |-> vendor_version_to_cpe_[ps[i]]])
            : ps \in pairs.val})


(***************************************************************************)
(* CPEClassifier.compute_best_match and predict_single_cert                *)
(*                                                                         *)
(* rapidfuzz is a library outside the repository: the four ratios it gives *)
(* for a candidate are inputs of a call, as is the order in which the      *)
(* candidate sets iterate.  An environment env = [cand, fuzz] holds, for   *)
(* one invocation, the candidate list get_candidate_cpe_matches returned   *)
(* and, per candidate uri, <<token_set_ratio_on_title,                     *)
(* partial_ratio_on_title, token_set_ratio_on_item_name,                   *)
(* partial_ratio_on_item_name>>.                                           *)
(***************************************************************************)
Max2(a, b) == IF a >= b THEN a ELSE b

compute_best_match(ratios) == Max2(Max2(ratios[1], ratios[2]), Max2(ratios[3], ratios[4]))

\* The threshold of the pass that runs with relax_version set.
FullScore == 100

pass_threshold(self, relax_version) ==
    IF ~relax_version THEN self.match_threshold ELSE FullScore

\* The positions, in candidate order, of zip(ratings, candidates) that the filter keeps.
final_matches(self, relax_version, env) ==
    SelectSeq([i \in 1..Len(env.cand) |-> i],
              LAMBDA i : compute_best_match(env.fuzz[env.cand[i].uri])
                            >= pass_threshold(self, relax_version))

\* A slip: the slice is left out, every kept match is returned.
first_uris_unsliced(self, env, kept) ==
    [j \in 1..Len(kept) |-> env.cand[kept[j]].uri]

\* final_matches[:n_max_matches], as uris
first_uris(self, env, kept) ==
    [j \in 1..(IF Len(kept) < self.n_max_matches THEN Len(kept) ELSE self.n_max_matches) |->
        env.cand[kept[j]].uri]

sanitize_vendor(vendor) ==
    IF vendor = <<>> THEN vendor ELSE Lower(discard_trademark_symbols(vendor))

\* The candidate lists one invocation may get, or the exception raised before it has any.
candidate_lists(vendor, versions) ==
    LET candidate_vendors == get_candidate_list_of_vendors(sanitize_vendor(vendor)) IN
    IF IsRaised(candidate_vendors) THEN candidate_vendors
    ELSE get_candidate_cpe_matches(candidate_vendors, versions)

RECURSIVE predict_single_cert(_, _, _, _, _)

\* A slip: the re-invocation passes the caller's versions on instead of ['-'].
predict_single_cert_same_versions(self, vendor, versions, relax_version, envs) ==
    LET lists == candidate_lists(vendor, versions)
        env == Head(envs)
        kept == final_matches(self, relax_version, env)
        call == [versions |-> versions, relax_version |-> relax_version,
                 threshold |-> pass_threshold(self, relax_version),
                 candidates |-> env.cand, raised |-> IsRaised(lists)]
    IN  IF IsRaised(lists) THEN [kind |-> lists.kind, val |-> <<>>, calls |-> <<call>>]
        ELSE IF relax_version /\ kept = <<>>
        THEN LET inner == predict_single_cert(self, vendor, versions, FALSE, Tail(envs))
             IN  [inner EXCEPT !.calls = <<call>> \o @]
        ELSE IF kept # <<>>
        THEN [kind |-> "list", val |-> first_uris(self, env, kept), calls |-> <<call>>]
        ELSE [kind |-> "None", val |-> <<>>, calls |-> <<call>>]

\* Returns [kind, val, calls]: what the outermost invocation returns, and one entry
\* per invocation of predict_single_cert made, outermost first.
predict_single_cert(self, vendor, versions, relax_version, envs) ==
    LET lists == candidate_lists(vendor, versions)
        env == Head(envs)
        kept == final_matches(self, relax_version, env)
        call == [versions |-> versions, relax_version |-> relax_version,
                 threshold |-> pass_threshold(self, relax_version),
                 candidates |-> env.cand, raised |-> IsRaised(lists)]
    IN  IF IsRaised(lists) THEN [kind |-> lists.kind, val |-> <<>>, calls |-> <<call>>]
        ELSE IF relax_version /\ kept = <<>>
        THEN LET inner == predict_single_cert(self, vendor, <<Dash>>, FALSE, Tail(envs))
             IN  [inner EXCEPT !.calls = <<call>> \o @]
        ELSE IF kept # <<>>
        THEN [kind |-> "list", val |-> first_uris(self, env, kept), calls |-> <<call>>]
        ELSE [kind |-> "None", val |-> <<>>, calls |-> <<call>>]

(***************************************************************************)
(* Inputs                                                                  *)
(***************************************************************************)
\* match_threshold: int = 80
DefaultMatchThreshold == 80
Thresholds == {DefaultMatchThreshold, 90}
MaxN == 2

Self == [match_threshold |-> match_threshold, n_max_matches |-> n_max_matches]

FitInputs ==
    { <<>>,
      <<cpe_ws, cpe_aix, cpe_zos, cpe_tiv, cpe_db2>>,
      <<cpe_lj, cpe_ws, cpe_aix, cpe_tiv>>,
      <<cpe_rhel, cpe_gem, cpe_thg, cpe_zos, cpe_rh2>> }

\* Raw vendor strings of a certificate.
PredictVendors ==
    { <<>>,
      <<"I", "B", "M", "(R)">>,
      <<"H", "e", "w", "l", "e", "t", "t", "-", "P", "a", "c", "k", "a", "r", "d">>,
      <<"I", "B", "M", "/", "H", "P">>,
      <<"(TM)", " ">> }

PredictVersions == { <<V71>>, <<Dash>>, <<>> }

\* The four ratios of one candidate: maxima 70, 85, 95 and 100.
FuzzOutcomes ==
    { <<60, 70, 40, 50>>, <<60, 85, 40, 50>>, <<60, 70, 95, 50>>, <<60, 70, 40, 100>> }

EmptyEnv == [cand |-> <<>>, fuzz |-> <<>>]

UrisOf(cand) == {cand[i].uri : i \in 1..Len(cand)}

EnvsFor(vendor, versions) ==
    LET lists == candidate_lists(vendor, versions) IN
    IF IsRaised(lists) THEN {EmptyEnv}
    ELSE UNION {{[cand |-> c, fuzz |-> f] : f \in [UrisOf(c) -> FuzzOutcomes]} : c \in lists.val}

\* The ratios on the title do not depend on the versions, and two invocations with
\* the same versions compute the same four ratios.
ConsistentEnvs(e1, e2, versions) ==
    \A u \in UrisOf(e1.cand) \cap UrisOf(e2.cand) :
        /\ e1.fuzz[u][1] = e2.fuzz[u][1]
        /\ e1.fuzz[u][2] = e2.fuzz[u][2]
        /\ versions = <<Dash>> => e1.fuzz[u] = e2.fuzz[u]

\* Whether the outermost invocation re-invokes predict_single_cert.
Retries(self, vendor, versions, relax_version, env) ==
    /\ ~IsRaised(candidate_lists(vendor, versions))
    /\ relax_version
    /\ final_matches(self, relax_version, env) = <<>>

(***************************************************************************)
(* The classifier's specification.  The caller is single-threaded: it      *)
(* makes a call, holds what the call returned (last) and lets go of it     *)
(* (Return) before its next call.                                          *)
(***************************************************************************)
Idle == [op |-> "idle"]

NoDataset ==
    /\ cves = <<>>
    /\ cve_objs = <<>>
    /\ cpe_to_cve_ids_lookup = <<>>
    /\ cves_with_vulnerable_configurations = <<>>

\* CPEClassifier.__init__(match_threshold, n_max_matches)
Init ==
    /\ match_threshold \in Thresholds
    /\ n_max_matches \in 1..MaxN
    /\ fitted = FALSE
    /\ vendor_to_versions_ = <<>>
    /\ vendor_version_to_cpe_ = <<>>
    /\ vendors_ = {}
    /\ NoDataset
    /\ last = Idle

\* CPEClassifier.fit(X)
Fit ==
    /\ last = Idle
    /\ \E X \in FitInputs :
        LET sufficiently_long_cpes == filter_short_cpes(X) IN
        /\ vendor_to_versions_' = build_vendor_to_versions(sufficiently_long_cpes)
        /\ vendors_' = DOMAIN build_vendor_to_versions(sufficiently_long_cpes)
        /\ vendor_version_to_cpe_' = build_vendor_version_to_cpe(sufficiently_long_cpes)
        /\ fitted' = TRUE
        /\ last' = [op |-> "fit", X |-> X, before |-> vendor_version_to_cpe_]
        /\ UNCHANGED <<match_threshold, n_max_matches, cve_vars>>

\* CPEClassifier.predict_single_cert(vendor, product_name, versions, relax_version)
Predict ==
    /\ last = Idle
    /\ fitted
    /\ \E vendor \in PredictVendors, versions \in PredictVersions, relax_version \in BOOLEAN :
         LET first == EnvsFor(vendor, versions)
             second == EnvsFor(vendor, <<Dash>>)
         IN
         \E e1 \in first :
           \E e2 \in (IF Retries(Self, vendor, versions, relax_version, e1)
                      THEN {e \in second : ConsistentEnvs(e1, e, versions)}
                      ELSE {EmptyEnv}) :
              last' = [op |-> "predict", vendor |-> vendor, versions |-> versions,
                       relax_version |-> relax_version, envs |-> <<e1, e2>>,
                       ret |-> predict_single_cert(Self, vendor, versions, relax_version,
                                                   <<e1, e2>>)]
    /\ UNCHANGED <<clf_vars, cve_vars>>

\* The caller is done with what the last call returned.
Return ==
    /\ last # Idle
    /\ last' = Idle
    /\ UNCHANGED <<clf_vars, cve_vars>>

Next == Fit \/ Predict \/ Return

Spec == Init /\ [][Next]_vars

(***************************************************************************)
(* The vendor resolver on its own: get_candidate_list_of_vendors applied   *)
(* to vendor strings made of up to MaxTokens tokens and the separators     *)
(* between them, over the vendor keys of a fitted classifier.              *)
(***************************************************************************)
MaxTokens == 3

ResolveTokens == { <<>>, <<" ">>, W_ibm \o <<" ">>, W_thales, W_the, W_red, W_hat }
ResolveSeparators == { <<" ">>, <<",">>, <<"/">> }

RECURSIVE VendorStrings(_)
VendorStrings(k) ==
    IF k = 1 THEN ResolveTokens
    ELSE VendorStrings(k - 1)
         \cup {s \o sep \o t : s \in VendorStrings(k - 1), sep \in ResolveSeparators,
                               t \in ResolveTokens}

InitResolver ==
    /\ match_threshold = DefaultMatchThreshold
    /\ n_max_matches = MaxN
    /\ fitted = FALSE
    /\ vendor_to_versions_ = <<>>
    /\ vendor_version_to_cpe_ = <<>>
    /\ vendors_ = {}
    /\ NoDataset
    /\ last = Idle

\* CPEClassifier.get_candidate_list_of_vendors(manufacturer)
ResolveVendors ==
    /\ last = Idle
    /\ fitted
    /\ \E manufacturer \in VendorStrings(MaxTokens) :
          last' = [op |-> "resolve", manufacturer |-> manufacturer,
                   ret |-> get_candidate_list_of_vendors(manufacturer)]
    /\ UNCHANGED <<clf_vars, cve_vars>>

NextResolver == Fit \/ ResolveVendors \/ Return

SpecResolver == InitResolver /\ [][NextResolver]_vars


(***************************************************************************)
(* _strip_manufacturer_and_version on its own, applied to product names    *)
(* made of up to MaxPieces pieces.                                         *)
(***************************************************************************)
MaxPieces == 3

StripPieces ==
    { W_ibm, <<"I", "B", "M">>, <<" ">>, <<"x">>, <<"7", " ", "1">>, V71 }

RECURSIVE ProductNames(_)
ProductNames(k) ==
    IF k = 0 THEN {<<>>}
    ELSE ProductNames(k - 1) \cup {s \o p : s \in ProductNames(k - 1), p \in StripPieces}

StripManufacturers == { <<>>, <<W_ibm>>, <<W_ibm, <<"x">>>> }
StripVersions == { <<>>, <<V71>> }

InitStrip ==
    /\ match_threshold = DefaultMatchThreshold
    /\ n_max_matches = MaxN
    /\ fitted = FALSE
    /\ vendor_to_versions_ = <<>>
    /\ vendor_version_to_cpe_ = <<>>
    /\ vendors_ = {}
    /\ NoDataset
    /\ last = Idle

\* CPEClassifier._strip_manufacturer_and_version(string, manufacturers, versions)
StripManufacturerAndVersion ==
    /\ last = Idle
    /\ \E string \in ProductNames(MaxPieces), manufacturers \in StripManufacturers,
          versions \in StripVersions :
          last' = [op |-> "strip", string |-> string, manufacturers |-> manufacturers,
                   versions |-> versions,
                   ret |-> strip_manufacturer_and_version(string, manufacturers, versions)]
    /\ UNCHANGED <<clf_vars, cve_vars>>

NextStrip == StripManufacturerAndVersion \/ Return

SpecStrip == InitStrip /\ [][NextStrip]_vars


(***************************************************************************)
(* CVEDataset (sec_certs/dataset/cve.py).                                  *)
(*                                                                         *)
(* A CVE object is [cve_id, vulnerable_cpes, vulnerable_cpe_configurations]*)
(* and a CPEConfiguration is [platform, cpes].  The objects live in        *)
(* cve_objs under their identity; cves and                                 *)
(* cves_with_vulnerable_configurations hold identities, so that a change   *)
(* made to an object through one of them shows through the other.  cves is *)
(* a Python dict: a sequence of <<key, identity>> in insertion order.      *)
(***************************************************************************)
DictHas(d, k) == \E i \in 1..Len(d) : d[i][1] = k
DictGet(d, k) == d[CHOOSE i \in 1..Len(d) : d[i][1] = k][2]
DictSet(d, k, v) ==
    IF DictHas(d, k)
    THEN [i \in 1..Len(d) |-> IF d[i][1] = k THEN <<k, v>> ELSE d[i]]
    ELSE Append(d, <<k, v>>)
DictDel(d, k) == SelectSeq(d, LAMBDA e : e[1] # k)
DictValues(d) == [i \in 1..Len(d) |-> d[i][2]]

ID1 == <<"C", "V", "E", "-", "1">>
ID2 == <<"C", "V", "E", "-", "2">>
ID3 == <<"C", "V", "E", "-", "3">>
ID4 == <<"C", "V", "E", "-", "4">>

MkConf(p, cs) == [platform |-> p, cpes |-> cs]
MkCVE(id, cpes, confs) ==
    [cve_id |-> id, vulnerable_cpes |-> cpes, vulnerable_cpe_configurations |-> confs]

\* The CVE objects there are, by identity.
InitialObjects ==
    << MkCVE(ID1, <<cpe_rhel>>, <<>>),
       MkCVE(ID2, <<>>, <<MkConf(cpe_zos, <<cpe_ws, cpe_aix>>)>>),
       MkCVE(ID3, <<cpe_ws, cpe_rhel>>, <<MkConf(cpe_zos, <<cpe_aix>>)>>),
       MkCVE(ID4, <<cpe_aix>>, <<>>) >>

\* The cves dict the constructor is given, as {x.cve_id: x for x in cves}.
InitialCorpora ==
    { <<<<ID1, 1>>, <<ID2, 2>>, <<ID3, 3>>>>,
      <<<<ID2, 2>>, <<ID1, 1>>>>,
      <<<<ID3, 3>>>> }

DatasetCPEs == {cpe_rhel, cpe_zos, cpe_ws, cpe_aix}
DatasetUris == {c.uri : c \in DatasetCPEs}
\* The uris asked about: those of the corpus and one no CVE names.
QueryUris == DatasetUris \cup {cpe_tiv.uri}

\* The NIST matching dictionaries get_nist_cpe_matching_dict may give: complex CPE ->
\* list of simple CPEs.
MatchingDicts ==
    { [c \in {cpe_rhel} |-> <<cpe_rhel, cpe_aix>>],
      [c \in {cpe_rhel, cpe_ws} |-> IF c = cpe_rhel THEN <<cpe_rhel>> ELSE <<cpe_zos, cpe_ws>>] }

\* __iter__: yield from self.cves.values()
Iter(d) == DictValues(d)

\* self.cves = {x.cve_id.upper(): x for x in self}
RECURSIVE rekey_by_upper_id(_, _, _)
rekey_by_upper_id(objs, refs, acc) ==
    IF refs = <<>> THEN acc
    ELSE rekey_by_upper_id(objs, Tail(refs),
                           DictSet(acc, Upper(objs[Head(refs)].cve_id), Head(refs)))

\* itertools.chain.from_iterable(matching_dict.get(cpe, []) for cpe in cpes)
RECURSIVE chain_matching(_, _)
chain_matching(matching_dict, cpes) ==
    IF cpes = <<>> THEN <<>>
    ELSE (IF Head(cpes) \in DOMAIN matching_dict THEN matching_dict[Head(cpes)] ELSE <<>>)
         \o chain_matching(matching_dict, Tail(cpes))

vulnerable_configurations(cve, use_nist_mapping, matching_dict) ==
    IF use_nist_mapping THEN chain_matching(matching_dict, cve.vulnerable_cpes)
    ELSE cve.vulnerable_cpes

\* A slip: both branches of the loop assign {cve.cve_id}, so the last CVE of a uri wins.
build_cpe_to_cve_ids_lookup_overwriting(objs, d, use_nist_mapping, matching_dict) ==
    LET refs == Iter(d)
        uris_of(r) ==
            {c.uri : c \in Range(vulnerable_configurations(objs[r], use_nist_mapping,
                                                          matching_dict))}
        last_of(u) == CHOOSE i \in 1..Len(refs) :
                         /\ u \in uris_of(refs[i])
                         /\ \A j \in (i + 1)..Len(refs) : u \notin uris_of(refs[j])
    IN  [u \in UNION {uris_of(r) : r \in Range(refs)} |-> {objs[refs[last_of(u)]].cve_id}]

\* The dictionary the loop of build_lookup_dict fills: cpe.uri -> {cve.cve_id}
build_cpe_to_cve_ids_lookup(objs, d, use_nist_mapping, matching_dict) ==
    LET refs == Range(Iter(d))
        uris_of(r) ==
            {c.uri : c \in Range(vulnerable_configurations(objs[r], use_nist_mapping,
                                                          matching_dict))}
    IN  [u \in UNION {uris_of(r) : r \in refs} |->
            {objs[r].cve_id : r \in {x \in refs : u \in uris_of(x)}}]

\* CVEDataset._filter_cves_with_cpe_configurations
filter_cves_with_cpe_configurations(objs, d) ==
    SelectSeq(Iter(d), LAMBDA r : objs[r].vulnerable_cpe_configurations # <<>>)

\* CVEDataset._get_cve_ids_for_cpe_uri
get_cve_ids_for_cpe_uri(lookup, cpe_uri) ==
    IF cpe_uri \in DOMAIN lookup THEN lookup[cpe_uri] ELSE {}

\* CVEDataset._get_cves_from_exactly_matched_cpes
get_cves_from_exactly_matched_cpes(lookup, cpe_uris) ==
    UNION {get_cve_ids_for_cpe_uri(lookup, u) : u \in cpe_uris}

\* CPEConfiguration.matches (sec_certs/sample/cpe.py)
matches(configuration, cpe_uris) ==
    /\ configuration.platform.uri \in cpe_uris
    /\ \E i \in 1..Len(configuration.cpes) : configuration.cpes[i].uri \in cpe_uris

\* CVEDataset._get_cves_from_cpe_configurations
get_cves_from_cpe_configurations(objs, with_configurations, cpe_uris) ==
    {objs[r].cve_id :
        r \in {x \in Range(with_configurations) :
                 \E i \in 1..Len(objs[x].vulnerable_cpe_configurations) :
                     matches(objs[x].vulnerable_cpe_configurations[i], cpe_uris)}}

\* A slip: the CVEs matched through their configurations are left out.
get_cves_exact_only(objs, lookup, with_configurations, cpe_uris) ==
    get_cves_from_exactly_matched_cpes(lookup, cpe_uris)

\* CVEDataset.get_cves_from_matched_cpes
get_cves_from_matched_cpes(objs, lookup, with_configurations, cpe_uris) ==
    get_cves_from_exactly_matched_cpes(lookup, cpe_uris)
    \cup get_cves_from_cpe_configurations(objs, with_configurations, cpe_uris)

\* `uri in relevant_cpes` for a str uri and a set of CPE objects: CPE.__eq__
\* (sec_certs/sample/cpe.py) equates a CPE with CPEs only, so no str is in the set.
str_in_cpes(uri, relevant_cpes) == FALSE

\* A slip: the configurations are left as they are.
filter_cve_cpes_only(cve, relevant_cpes) ==
    [cve EXCEPT !.vulnerable_cpes = SelectSeq(@, LAMBDA x : x \in relevant_cpes)]

\* The two list comprehensions of filter_related_cpes, on one CVE object.
filter_cve(cve, relevant_cpes) ==
    [cve EXCEPT
        !.vulnerable_cpes = SelectSeq(@, LAMBDA x : x \in relevant_cpes),
        !.vulnerable_cpe_configurations =
            SelectSeq(@, LAMBDA x :
                /\ str_in_cpes(x.platform.uri, relevant_cpes)
                /\ \E i \in 1..Len(x.cpes) : str_in_cpes(x.cpes[i].uri, relevant_cpes))]

\* for cve_id in cve_ids_to_delete: del self.cves[cve_id]
RECURSIVE delete_cves(_, _)
delete_cves(d, cve_ids_to_delete) ==
    IF cve_ids_to_delete = <<>> THEN [cves |-> d, kind |-> "None"]
    ELSE IF ~DictHas(d, Head(cve_ids_to_delete)) THEN [cves |-> d, kind |-> "KeyError"]
    ELSE delete_cves(DictDel(d, Head(cve_ids_to_delete)), Tail(cve_ids_to_delete))

\* The objects after the first loop of filter_related_cpes.
filtered_objects(objs, d, relevant_cpes) ==
    [r \in DOMAIN objs |->
        IF r \in Range(Iter(d)) THEN filter_cve(objs[r], relevant_cpes) ELSE objs[r]]

\* cve_ids_to_delete, in iteration order.
cve_ids_to_delete(objs, d) ==
    LET emptied == SelectSeq(Iter(d), LAMBDA r : objs[r].vulnerable_cpes = <<>>)
    IN  [i \in 1..Len(emptied) |-> objs[emptied[i]].cve_id]


(***************************************************************************)
(* The dataset's specification                                             *)
(***************************************************************************)
NoClassifier ==
    /\ match_threshold = DefaultMatchThreshold
    /\ n_max_matches = MaxN
    /\ fitted = FALSE
    /\ vendor_to_versions_ = <<>>
    /\ vendor_version_to_cpe_ = <<>>
    /\ vendors_ = {}

\* CVEDataset.__init__(cves)
InitCVE ==
    /\ NoClassifier
    /\ cve_objs = InitialObjects
    /\ cves \in InitialCorpora
    /\ cpe_to_cve_ids_lookup = <<>>
    /\ cves_with_vulnerable_configurations = <<>>
    /\ last = Idle

\* CVEDataset.build_lookup_dict(use_nist_mapping, nist_matching_filepath)
BuildLookupDict ==
    /\ last = Idle
    /\ \E use_nist_mapping \in BOOLEAN :
         \E matching_dict \in (IF use_nist_mapping THEN MatchingDicts ELSE {<<>>}) :
            LET rekeyed == rekey_by_upper_id(cve_objs, Iter(cves), <<>>) IN
            /\ cves' = rekeyed
            /\ cpe_to_cve_ids_lookup' =
                  build_cpe_to_cve_ids_lookup(cve_objs, rekeyed, use_nist_mapping, matching_dict)
            /\ cves_with_vulnerable_configurations' =
                  filter_cves_with_cpe_configurations(cve_objs, rekeyed)
            /\ last' = [op |-> "build_lookup_dict", use_nist_mapping |-> use_nist_mapping,
                        matching_dict |-> matching_dict]
    /\ UNCHANGED <<clf_vars, cve_objs>>

\* CVEDataset.get_cves_from_matched_cpes(cpe_uris)
GetCves ==
    /\ last = Idle
    /\ \E cpe_uris \in SUBSET QueryUris :
          last' = [op |-> "get_cves_from_matched_cpes", cpe_uris |-> cpe_uris,
                   ret |-> get_cves_from_matched_cpes(cve_objs, cpe_to_cve_ids_lookup,
                              cves_with_vulnerable_configurations, cpe_uris)]
    /\ UNCHANGED <<clf_vars, cve_vars>>

\* CVEDataset.filter_related_cpes(relevant_cpes)
FilterRelatedCpes ==
    /\ last = Idle
    /\ \E relevant_cpes \in SUBSET DatasetCPEs :
         LET objs == filtered_objects(cve_objs, cves, relevant_cpes)
             deleted == delete_cves(cves, cve_ids_to_delete(objs, cves))
         IN  /\ cve_objs' = objs
             /\ cves' = deleted.cves
             /\ last' = [op |-> "filter_related_cpes", relevant_cpes |-> relevant_cpes,
                         before |-> cves, ret |-> [kind |-> deleted.kind, val |-> <<>>]]
    /\ UNCHANGED <<clf_vars, cpe_to_cve_ids_lookup, cves_with_vulnerable_configurations>>

\* The keys and items used with dataset[k] = record and dataset[k].
ItemKeys == { ID4, <<"4">> }

\* CVEDataset.__setitem__(key, value)
SetItem ==
    /\ last = Idle
    /\ \E key \in ItemKeys, value \in {1, 4} :
         /\ cves' = DictSet(cves, Lower(key), value)
         /\ last' = [op |-> "__setitem__", key |-> key, value |-> value]
    /\ UNCHANGED <<clf_vars, cve_objs, cpe_to_cve_ids_lookup,
                   cves_with_vulnerable_configurations>>

\* self.cves.__getitem__(item.upper()): the object under the key, or KeyError.
getitem(d, item) ==
    IF DictHas(d, Upper(item))
    THEN [kind |-> "CVE", val |-> DictGet(d, Upper(item))]
    ELSE Raised("KeyError")

\* CVEDataset.__getitem__(item)
GetItem ==
    /\ last = Idle
    /\ \E item \in ItemKeys :
          last' = [op |-> "__getitem__", item |-> item, ret |-> getitem(cves, item)]
    /\ UNCHANGED <<clf_vars, cve_vars>>

NextCVE == BuildLookupDict \/ GetCves \/ FilterRelatedCpes \/ SetItem \/ GetItem \/ Return

SpecCVE == InitCVE /\ [][NextCVE]_vars


(***************************************************************************)
(* Properties of the matcher (checked under Spec)                          *)
(***************************************************************************)
IsPredict == last.op = "predict"

\* The score compute_best_match gave candidate i of an invocation.
Score(env, i) == compute_best_match(env.fuzz[env.cand[i].uri])

\* The positions of the candidates of env scoring at least t, in candidate order.
Passing(env, t) == SelectSeq([i \in 1..Len(env.cand) |-> i], LAMBDA i : Score(env, i) >= t)

FirstN(seq, n) == SubSeq(seq, 1, IF Len(seq) < n THEN Len(seq) ELSE n)

UrisAt(env, positions) == [j \in 1..Len(positions) |-> env.cand[positions[j]].uri]

\* The vendor keys the last predict call resolved its vendor to.
ResolvedVendors ==
    LET cv == get_candidate_list_of_vendors(sanitize_vendor(last.vendor)) IN
    IF cv.kind = "list" THEN cv.val ELSE {}

IndexedRecords == UNION {vendor_version_to_cpe_[p] : p \in DOMAIN vendor_version_to_cpe_}

\* C1 (as claimed): in a call with relax_version = true, the first pass keeps the
\* candidates scoring at least match_threshold: when there is one, the call returns
\* from its first pass, with the first n_max_matches of them.
C1_FirstPassUsesMatchThreshold ==
    (IsPredict /\ last.relax_version /\ ~last.ret.calls[1].raised) =>
        LET passing == Passing(last.envs[1], match_threshold) IN
        passing # <<>> =>
            /\ Len(last.ret.calls) = 1
            /\ last.ret.kind = "list"
            /\ last.ret.val = UrisAt(last.envs[1], FirstN(passing, n_max_matches))

\* Stable sort of positions by descending score.
RECURSIVE InsertByScore(_, _, _)
InsertByScore(env, sorted, i) ==
    IF sorted = <<>> THEN <<i>>
    ELSE IF Score(env, Head(sorted)) >= Score(env, i)
         THEN <<Head(sorted)>> \o InsertByScore(env, Tail(sorted), i)
         ELSE <<i>> \o sorted

RECURSIVE SortByScore(_, _, _)
SortByScore(env, positions, sorted) ==
    IF positions = <<>> THEN sorted
    ELSE SortByScore(env, Tail(positions), InsertByScore(env, sorted, Head(positions)))

\* C2 (as claimed): a call that does not raise returns the uris of the n_max_matches
\* highest-scoring candidates passing the threshold of its last pass, by descending
\* score and, among equal scores, in candidate order; None when none passes.
C2_TopNByDescendingScore ==
    (IsPredict /\ ~IsRaised(last.ret)) =>
        LET k == Len(last.ret.calls)
            env == last.envs[k]
            passing == Passing(env, last.ret.calls[k].threshold)
        IN  IF passing = <<>> THEN last.ret.kind = "None"
            ELSE /\ last.ret.kind = "list"
                 /\ last.ret.val =
                        UrisAt(env, FirstN(SortByScore(env, passing, <<>>), n_max_matches))

\* What the last predict call would have returned had match_threshold been t.
PredictAt(t) ==
    predict_single_cert([match_threshold |-> t, n_max_matches |-> n_max_matches],
                        last.vendor, last.versions, last.relax_version, last.envs)

UriSet(r) == IF r.kind = "list" THEN Range(r.val) ELSE {}

\* C3 (as claimed): for the query, index and n_max_matches of a call and thresholds
\* t1 <= t2, the uris returned with match_threshold = t2 are among those returned
\* with match_threshold = t1.
C3_ThresholdMonotone ==
    IsPredict =>
        \A t1 \in Thresholds, t2 \in Thresholds :
            t1 <= t2 => UriSet(PredictAt(t2)) \subseteq UriSet(PredictAt(t1))

\* The relaxed pass of the last predict call ran and got its candidates.
RelaxedPassRan ==
    IsPredict /\ Len(last.ret.calls) = 2 /\ ~last.ret.calls[2].raised

RelaxedPool == Range(last.ret.calls[2].candidates)

\* C4 (as claimed): the candidate pool of the relaxed pass is every indexed record
\* of every resolved candidate vendor.
C4_RelaxedPoolIsAllVendorRecords ==
    RelaxedPassRan => RelaxedPool = {c \in IndexedRecords : c.vendor \in ResolvedVendors}

\* C4 (amended): the candidate pool of the relaxed pass is the indexed records of the
\* resolved candidate vendors whose version starts with "-".
C4_RelaxedPoolIsDashVersions ==
    RelaxedPassRan =>
        RelaxedPool = {c \in IndexedRecords :
                          c.vendor \in ResolvedVendors /\ StartsWith(c.version, Dash)}

\* A relaxed pass with a candidate, which leaves out a record of a resolved vendor.
C4_Witness ==
    /\ RelaxedPassRan
    /\ RelaxedPool # {}
    /\ \E c \in IndexedRecords : c.vendor \in ResolvedVendors /\ c \notin RelaxedPool

\* C5 (as claimed): a call whose resolved vendors include a key that is no key of the
\* index returns a list or None.
C5_AbsentVendorDoesNotRaise ==
    (IsPredict /\ \E v \in ResolvedVendors : v \notin DOMAIN vendor_to_versions_) =>
        last.ret.kind \in {"list", "None"}

\* The invocations of predict_single_cert the last predict call made.
Calls == last.ret.calls

\* C11: a call makes one invocation or two; it makes the second iff relax_version is
\* set, the first did not raise and its filter kept nothing; the second runs with
\* versions ['-'] and relax_version = False; a call with relax_version = False makes one.
C11_AtMostOneRelaxedRetry ==
    IsPredict =>
        /\ Len(Calls) \in {1, 2}
        /\ Calls[1].versions = last.versions /\ Calls[1].relax_version = last.relax_version
        /\ Len(Calls) = 2 <=>
                /\ last.relax_version
                /\ ~Calls[1].raised
                /\ Passing(last.envs[1], Calls[1].threshold) = <<>>
        /\ Len(Calls) = 2 => Calls[2].versions = <<Dash>> /\ ~Calls[2].relax_version
        /\ ~last.relax_version => Len(Calls) = 1

\* A call for versions ['7.1'] that retried, and whose retry kept nothing either.
C11_Witness ==
    /\ IsPredict /\ last.versions = <<V71>>
    /\ Len(Calls) = 2
    /\ Calls[1].candidates # <<>>
    /\ Calls[2].candidates # <<>>
    /\ last.ret.kind = "None"

\* A call with relax_version = False that kept nothing and did not retry.
C11_WitnessNoRetry ==
    /\ IsPredict /\ ~last.relax_version
    /\ Calls[1].candidates # <<>>
    /\ last.ret.kind = "None"

\* C12: a returned list never has more than n_max_matches elements, on the first pass
\* and on the retry.
C12_AtMostNMaxMatches ==
    (IsPredict /\ last.ret.kind = "list") => Len(last.ret.val) <= n_max_matches

\* A retry in which more than n_max_matches candidates passed: n_max_matches returned.
C12_Witness ==
    /\ IsPredict /\ last.ret.kind = "list"
    /\ Len(Calls) = 2
    /\ Len(Passing(last.envs[2], Calls[2].threshold)) > n_max_matches
    /\ Len(last.ret.val) = n_max_matches

\* A single pass in which more than n_max_matches candidates passed.
C12_WitnessFirstPass ==
    /\ IsPredict /\ last.ret.kind = "list"
    /\ Len(Calls) = 1
    /\ Len(Passing(last.envs[1], Calls[1].threshold)) > n_max_matches
    /\ Len(last.ret.val) = n_max_matches

IsFit == last.op = "fit"

\* The records a fit call was given whose item_name is longer than 3 characters.
LongRecords == {x \in Range(last.X) : Len(x.item_name) > 3}

\* The records of an index, whatever their keys.
RecordsOf(index) == UNION {index[p] : p \in DOMAIN index}

\* C13: after a fit call, whatever calls came before, the index holds exactly the
\* records of this call's input with an item_name longer than 3 characters, each
\* under its own (vendor, version), and vendor_to_versions_ lists exactly their
\* versions per vendor; no shorter record and no record of an earlier fit is in it.
C13_IndexIsLastFitLongRecords ==
    IsFit =>
        /\ DOMAIN vendor_version_to_cpe_ = {<<x.vendor, x.version>> : x \in LongRecords}
        /\ \A p \in DOMAIN vendor_version_to_cpe_ :
              vendor_version_to_cpe_[p] = {x \in LongRecords : <<x.vendor, x.version>> = p}
        /\ DOMAIN vendor_to_versions_ = {x.vendor : x \in LongRecords}
        /\ \A v \in DOMAIN vendor_to_versions_ :
              vendor_to_versions_[v] = {x.version : x \in {y \in LongRecords : y.vendor = v}}
        /\ vendors_ = DOMAIN vendor_to_versions_
        /\ \A x \in IndexedRecords : Len(x.item_name) > 3 /\ x \in Range(last.X)

\* A fit over an index of an earlier fit, which held a record this input lacks, with
\* an input that has a record of a three-character item_name and longer ones.
C13_Witness ==
    /\ IsFit
    /\ \E x \in RecordsOf(last.before) : x \notin Range(last.X)
    /\ \E x \in Range(last.X) : Len(x.item_name) = 3
    /\ IndexedRecords # {}

(***************************************************************************)
(* Properties of the vendor resolver (checked under SpecResolver)          *)
(***************************************************************************)
\* The pieces of s between separators of either kind.
RECURSIVE SplitAny(_, _)
SplitAny(s, cur) ==
    IF s = <<>> THEN {cur}
    ELSE IF Head(s) \in Separators THEN {cur} \cup SplitAny(Tail(s), <<>>)
    ELSE SplitAny(Tail(s), Append(cur, Head(s)))

IsResolve == last.op = "resolve"

\* C10: for a vendor string with a comma or a slash, the resolver returns the union of
\* what it returns for each trimmed separator-delimited token, None when that is
\* empty, and never the unsplit string itself.
C10_SeparatorSplitting ==
    (IsResolve /\ Range(last.manufacturer) \cap Separators # {}) =>
        LET tokens == {Strip(t) : t \in SplitAny(last.manufacturer, <<>>)}
            each == {get_candidate_list_of_vendors(t) : t \in tokens}
            union == UNION {r.val : r \in {x \in each : x.kind = "list"}}
        IN  /\ \A r \in each : ~IsRaised(r)
            /\ last.ret = (IF union = {} THEN None ELSE Ret(union))
            /\ last.manufacturer \notin union

\* A string with both kinds of separator that resolves to keys of two of its tokens.
C10_Witness ==
    /\ IsResolve
    /\ Separators \subseteq Range(last.manufacturer)
    /\ last.ret.kind = "list"
    /\ W_ibm \in last.ret.val
    /\ W_thalesgroup \in last.ret.val

\* A multi-vendor string that is itself a vendor key, and is not matched.
C10_WitnessUnsplitKey ==
    /\ IsResolve
    /\ last.manufacturer \in vendors_
    /\ Range(last.manufacturer) \cap Separators # {}


\* C14 (as claimed): get_candidate_list_of_vendors raises for no string: it returns a
\* list or None, and None for a string made only of whitespace.
C14_ResolveNeverRaises ==
    IsResolve =>
        /\ ~IsRaised(last.ret)
        /\ Strip(last.manufacturer) = <<>> => last.ret = None

\* C14 (as claimed), through predict_single_cert: a vendor that is whitespace-only
\* once the trademark signs are discarded gives None, not an exception.
C14_PredictBlankVendorNoMatch ==
    (IsPredict /\ last.vendor # <<>> /\ Strip(sanitize_vendor(last.vendor)) = <<>>) =>
        last.ret.kind = "None"

(***************************************************************************)
(* Properties of _strip_manufacturer_and_version (checked under SpecStrip) *)
(***************************************************************************)
IsStrip == last.op = "strip"

\* The leftmost position at which old occurs in s, 0 when it does not.
FirstOccurrence(s, old) ==
    LET at == {i \in 1..(Len(s) - Len(old) + 1) : SubSeq(s, i, i + Len(old) - 1) = old}
    IN  IF at = {} THEN 0 ELSE CHOOSE i \in at : \A j \in at : i <= j

\* s without the leftmost occurrence of old.
WithoutFirst(s, old) ==
    LET i == FirstOccurrence(s, old) IN
    IF old = <<>> \/ i = 0 THEN s
    ELSE SubSeq(s, 1, i - 1) \o SubSeq(s, i + Len(old), Len(s))

\* s without every occurrence of old, taken leftmost first.
RECURSIVE WithoutEvery(_, _)
WithoutEvery(s, old) ==
    LET i == FirstOccurrence(s, old) IN
    IF old = <<>> \/ i = 0 THEN s
    ELSE SubSeq(s, 1, i - 1) \o WithoutEvery(SubSeq(s, i + Len(old), Len(s)), old)

\* The string after the strings of xs, lowercased and folded, are taken out of the
\* lowercased string one after the other by Without, trimming after each.
RECURSIVE Stripped(_, _, _)
Stripped(string, xs, every) ==
    IF xs = <<>> THEN string
    ELSE LET folded == replace_special_chars_with_space(Lower(Head(xs)))
             cut == IF every THEN WithoutEvery(Lower(string), folded)
                    ELSE WithoutFirst(Lower(string), folded)
         IN  Stripped(Strip(cut), Tail(xs), every)

\* C15 (as claimed): the result is the input with, for each vendor and then each
\* version in list order, only the first occurrence of the string taken out.
C15_RemovesFirstOccurrenceOnly ==
    IsStrip => last.ret = Stripped(last.string, last.manufacturers \o last.versions, FALSE)

\* C15 (amended): the result is the input with, for each vendor and then each version
\* in list order, every occurrence of the string taken out, leftmost first.
C15_RemovesEveryOccurrence ==
    IsStrip => last.ret = Stripped(last.string, last.manufacturers \o last.versions, TRUE)

\* A product name with the vendor in it twice, none of which is left.
C15_Witness ==
    /\ IsStrip
    /\ last.manufacturers = <<W_ibm>>
    /\ FirstOccurrence(WithoutFirst(Lower(last.string), W_ibm), W_ibm) # 0
    /\ FirstOccurrence(last.ret, W_ibm) = 0
    /\ last.ret # <<>>

(***************************************************************************)
(* Properties of the dataset (checked under SpecCVE)                       *)
(***************************************************************************)
\* The CVE objects of the corpus.
CorpusRefs == Range(Iter(cves))
CorpusIds == {cve_objs[r].cve_id : r \in CorpusRefs}

DirectUris(cve) == {cve.vulnerable_cpes[i].uri : i \in 1..Len(cve.vulnerable_cpes)}

\* What get_cves_from_matched_cpes returns now.
Resolve(cpe_uris) ==
    get_cves_from_matched_cpes(cve_objs, cpe_to_cve_ids_lookup,
                               cves_with_vulnerable_configurations, cpe_uris)

AfterUnexpandedBuild == last.op = "build_lookup_dict" /\ ~last.use_nist_mapping

\* C6: after build_lookup_dict(use_nist_mapping=False), for every set U of uris the
\* exactly matched ids are the ids of the CVEs of the corpus with a direct cpe in U (a
\* uri of no CVE adds nothing), and a CVE with no configuration and no direct cpe in U
\* is not returned.
C6_ExactMatchAfterBuild ==
    AfterUnexpandedBuild =>
        \A U \in SUBSET QueryUris :
            /\ get_cves_from_exactly_matched_cpes(cpe_to_cve_ids_lookup, U)
                 = {cve_objs[r].cve_id : r \in {x \in CorpusRefs : DirectUris(cve_objs[x]) \cap U # {}}}
            /\ \A r \in CorpusRefs :
                 (/\ cve_objs[r].vulnerable_cpe_configurations = <<>>
                  /\ DirectUris(cve_objs[r]) \cap U = {})
                 => cve_objs[r].cve_id \notin Resolve(U)

\* A build over a corpus in which one uri is a direct cpe of two CVEs.
C6_Witness ==
    /\ AfterUnexpandedBuild
    /\ \E u \in DOMAIN cpe_to_cve_ids_lookup : Cardinality(cpe_to_cve_ids_lookup[u]) = 2
    /\ \E r \in CorpusRefs : cve_objs[r].vulnerable_cpe_configurations = <<>>

\* The lookup structures are those a build over the corpus as it is now gives.
IndexBuiltFromCorpus ==
    /\ cves_with_vulnerable_configurations = filter_cves_with_cpe_configurations(cve_objs, cves)
    /\ \/ cpe_to_cve_ids_lookup = build_cpe_to_cve_ids_lookup(cve_objs, cves, FALSE, <<>>)
       \/ \E md \in MatchingDicts :
            cpe_to_cve_ids_lookup = build_cpe_to_cve_ids_lookup(cve_objs, cves, TRUE, md)

IsGetCves == last.op = "get_cves_from_matched_cpes"

ConfigurationSatisfied(cve, U) ==
    \E i \in 1..Len(cve.vulnerable_cpe_configurations) :
        LET conf == cve.vulnerable_cpe_configurations[i] IN
        /\ conf.platform.uri \in U
        /\ \E j \in 1..Len(conf.cpes) : conf.cpes[j].uri \in U

\* C7: with the lookup structures built from the corpus, a CVE without direct cpes is
\* returned for U iff one of its configurations has its platform in U and one of its
\* components in U.
C7_CompoundMatching ==
    (IsGetCves /\ IndexBuiltFromCorpus) =>
        \A r \in CorpusRefs :
            cve_objs[r].vulnerable_cpes = <<>> =>
                (cve_objs[r].cve_id \in last.ret
                    <=> ConfigurationSatisfied(cve_objs[r], last.cpe_uris))

\* CVE-2 (platform zos, components webs and aix5) returned for {zos, webs}.
C7_Witness ==
    /\ IsGetCves /\ IndexBuiltFromCorpus
    /\ last.cpe_uris = {cpe_zos.uri, cpe_ws.uri}
    /\ 2 \in CorpusRefs
    /\ ID2 \in last.ret

\* CVE-2 not returned for its component webs alone.
C7_WitnessNoPlatform ==
    /\ IsGetCves /\ IndexBuiltFromCorpus
    /\ last.cpe_uris = {cpe_ws.uri}
    /\ 2 \in CorpusRefs
    /\ ID2 \notin last.ret

\* What get_cves_from_matched_cpes would return after build_lookup_dict(False) now.
FreshResolve(cpe_uris) ==
    LET rekeyed == rekey_by_upper_id(cve_objs, Iter(cves), <<>>) IN
    get_cves_from_matched_cpes(cve_objs,
        build_cpe_to_cve_ids_lookup(cve_objs, rekeyed, FALSE, <<>>),
        filter_cves_with_cpe_configurations(cve_objs, rekeyed), cpe_uris)

IndexAnswersForCorpus ==
    \A U \in SUBSET QueryUris :
        Resolve(U) \subseteq CorpusIds /\ Resolve(U) = FreshResolve(U)

\* A call that changes the corpus.
CorpusChanging == {"filter_related_cpes", "__setitem__"}

\* C8 (as claimed): a lookup index that answers for the corpus still does after
\* filter_related_cpes or any other change of the corpus: every answer holds ids of
\* the corpus only and is what a freshly built index would give.
C8_IndexFollowsCorpus ==
    [][(IndexAnswersForCorpus /\ last'.op \in CorpusChanging) => IndexAnswersForCorpus']_vars

IsFilter == last.op = "filter_related_cpes"

\* The cpes a CVE refers to: direct ones, platforms and components.
ReferencedCpes(cve) ==
    Range(cve.vulnerable_cpes)
    \cup UNION {{cve.vulnerable_cpe_configurations[i].platform}
                \cup Range(cve.vulnerable_cpe_configurations[i].cpes)
                : i \in 1..Len(cve.vulnerable_cpe_configurations)}

C16_PruningPreservesResolution ==
    [][(last'.op = "filter_related_cpes" /\ last'.ret.kind = "None") =>
          \A U \in SUBSET {c.uri : c \in last'.relevant_cpes} :
              FreshResolve(U)' = FreshResolve(U)]_vars

IsSetItem == last.op = "__setitem__"

\* C17 (as claimed): after dataset[k] = record, dataset[k] returns that record, for
\* every key string k.
C17_SetItemGetItemRoundTrip ==
    IsSetItem => getitem(cves, last.key) = [kind |-> "CVE", val |-> last.value]

====
